---- MODULE Spec2Model ----
(***************************************************************************)
(* Model of the numerical core of QWF (QuantumWaveform): the complex       *)
(* algebra and special functions of ShaderUtils.h / ComplexUtils.h, the    *)
(* wave-function evaluators and the field driver of QuantumWaveFunctions.h.*)
(*                                                                         *)
(* Arithmetic.  A C `float` is modelled as an exact rational <<num, den>>  *)
(* (den > 0, lowest terms); the float accumulator of factorial, whose      *)
(* values are natural numbers that outgrow 32 bits, as an exact natural in *)
(* base-10000 limbs.  Rounding to binary32 is therefore NOT modelled: an   *)
(* equality of float results below is an equality of the real numbers the  *)
(* code's formulas denote.  The `int` of calc_factorial keeps its 32-bit   *)
(* two's-complement width, and a signed overflow is undefined behaviour.   *)
(***************************************************************************)
EXTENDS Integers, Sequences, FiniteSets, TLC

VARIABLES
    fn,        \* the function being (or last) executed; "none" before any call
    args,      \* its arguments
    pc,        \* "idle" | "loop" (inside the function's for loop) | "done"
    loc,       \* the locals of the running loop
    iters,     \* number of loop-body executions of the current call
    ret,       \* the value returned (meaningful when pc = "done")
    params,    \* the caller's QuantumParameters record (driver calls)
    position,  \* the driver's input buffer  (device float*)
    psi,       \* the driver's output buffer (device float2*)
    calls      \* the evaluator invocations made by the current driver call

vars == <<fn, args, pc, loc, iters, ret, params, position, psi, calls>>

----------------------------------------------------------------------------
(* Bounds of the model *)

MaxN == 8          \* largest n passed to hermite
MaxLagN == 5       \* largest n passed to assoc_laguerre
MaxFact == 13      \* largest n passed to factorial and calc_factorial
MaxAlpha == 2      \* largest alpha passed to assoc_laguerre
MaxX == 2          \* sample points are the integers -MaxX..MaxX
MaxSize == 3       \* largest grid size handed to the driver
MaxDriverN == 2    \* largest quantum number handed to the driver

NRange == (-2)..MaxN
LagNRange == (-2)..MaxLagN
AlphaRange == (-1)..MaxAlpha
FactRange == (-2)..MaxFact
XInts == (-MaxX)..MaxX

----------------------------------------------------------------------------
(* Exact rationals standing for float values *)

Abs(a) == IF a < 0 THEN -a ELSE a

Max0(a) == IF a < 0 THEN 0 ELSE a

RECURSIVE GCD(_, _)
GCD(a, b) == IF b = 0 THEN a ELSE GCD(b, a % b)

\* p/q in lowest terms with a positive denominator (q # 0)
Reduced ==
    [p \in Int, q \in Int |->
        LET s == IF q < 0 THEN -1 ELSE 1
            g == GCD(Abs(p), Abs(q))
        IN  <<(s * p) \div g, (s * q) \div g>>]

Rat(p, q) == Reduced[p, q]

\* int -> float conversion
F(k) == <<k, 1>>

FAdd(a, b) == Rat(a[1] * b[2] + b[1] * a[2], a[2] * b[2])
FSub(a, b) == Rat(a[1] * b[2] - b[1] * a[2], a[2] * b[2])
FMul(a, b) == Rat(a[1] * b[1], a[2] * b[2])
FDiv(a, b) == Rat(a[1] * b[2], a[2] * b[1])
FNeg(a) == <<-a[1], a[2]>>
FLt(a, b) == a[1] * b[2] < b[1] * a[2]
FGt(a, b) == FLt(b, a)

XVals == {F(k) : k \in XInts}

\* the parts of the complex values tried: the sample points and a half
ComplexParts == XVals \cup {<<1, 2>>}

\* positions and well lengths tried on infinite_well
WellX == XVals \cup {<<-1, 10>>, <<11, 10>>, F(MaxX + 1)}
WellL == {F(k) : k \in (-1)..MaxX}

\* positions handed to the driver, and the caller's parameter records
DriverX == {F(-1), F(0), F(1)}
ParamSets == [systemType : 0..3, simulationTime : {F(0), F(1)}, mass : {F(1)}, hbar : {F(1)}]

----------------------------------------------------------------------------
(* Exact naturals in base-10000 limbs, least significant first *)

RECURSIVE BigMulCarry(_, _, _)
BigMulCarry(b, k, carry) ==
    IF b = <<>>
    THEN IF carry = 0 THEN <<>> ELSE <<carry % 10000>> \o BigMulCarry(<<>>, k, carry \div 10000)
    ELSE LET v == b[1] * k + carry
         IN  <<v % 10000>> \o BigMulCarry(Tail(b), k, v \div 10000)

\* b * k for a natural k < 2^17
BigMulSmall(b, k) == BigMulCarry(b, k, 0)

\* the natural number v >= 1 as limbs
BigOfInt(v) == BigMulCarry(<<>>, 0, v)

----------------------------------------------------------------------------
(* Complex arithmetic: ShaderUtils.h, Shaders/ComplexUtils.h *)

ComplexType(re, im) == [real |-> re, imag |-> im]

complex_mul(a, b) ==
    ComplexType(FSub(FMul(a.real, b.real), FMul(a.imag, b.imag)),
                FAdd(FMul(a.real, b.imag), FMul(a.imag, b.real)))

complex_conj_keep_sign(z) == ComplexType(z.real, z.imag)

complex_conj(z) == ComplexType(z.real, FNeg(z.imag))

complex_abs2(z) == FAdd(FMul(z.real, z.real), FMul(z.imag, z.imag))

complex_dot(a, b) == FAdd(FMul(a.real, b.real), FMul(a.imag, b.imag))

complex_mul_i(a) == ComplexType(FNeg(a.imag), a.real)

complex_scale(z, scale) == ComplexType(FMul(z.real, scale), FMul(z.imag, scale))

----------------------------------------------------------------------------
(* Special functions: ShaderUtils.h *)

\* factorial: `result *= i` on the float accumulator
factorial_body(l) == [i |-> l.i + 1, result |-> BigMulSmall(l.result, l.i)]

factorial_init == [i |-> 2, result |-> BigOfInt(1)]

factorial_cond_lt(l, n) == l.i < n

factorial_cond(l, n) == l.i <= n

RECURSIVE factorial_loop(_, _)
factorial_loop(l, n) ==
    IF factorial_cond(l, n) THEN factorial_loop(factorial_body(l), n) ELSE l.result

factorial(n) == IF n <= 1 THEN BigOfInt(1) ELSE factorial_loop(factorial_init, n)

\* hermite: h2 = 2.0 * x * h1 - 2.0 * i * h0; h0 = h1; h1 = h2
hermite_body_next_index(l, x) ==
    LET h2 == FSub(FMul(FMul(F(2), x), l.h1), FMul(FMul(F(2), F(l.i + 1)), l.h0))
    IN  [i |-> l.i + 1, h0 |-> l.h1, h1 |-> h2, h2 |-> h2]

hermite_body(l, x) ==
    LET h2 == FSub(FMul(FMul(F(2), x), l.h1), FMul(FMul(F(2), F(l.i)), l.h0))
    IN  [i |-> l.i + 1, h0 |-> l.h1, h1 |-> h2, h2 |-> h2]

hermite_init(x) == [i |-> 1, h0 |-> F(1), h1 |-> FMul(F(2), x), h2 |-> F(0)]

hermite_cond_le(l, n) == l.i <= n

hermite_cond(l, n) == l.i < n

RECURSIVE hermite_loop(_, _, _)
hermite_loop(l, n, x) ==
    IF hermite_cond(l, n) THEN hermite_loop(hermite_body(l, x), n, x) ELSE l.h1

hermite(n, x) ==
    IF n = 0 THEN F(1)
    ELSE IF n = 1 THEN FMul(F(2), x)
    ELSE hermite_loop(hermite_init(x), n, x)

\* assoc_laguerre: l2 = ((2.0*k + 1.0 + a - x) * l1 - (k + a) * l0) / (k + 1.0)
assoc_laguerre_body_no_div(l, alpha, x) ==
    LET k == F(l.i)
        a == F(alpha)
        l2 == FSub(FMul(FSub(FAdd(FAdd(FMul(F(2), k), F(1)), a), x), l.l1),
                   FMul(FAdd(k, a), l.l0))
    IN  [i |-> l.i + 1, l0 |-> l.l1, l1 |-> l2, l2 |-> l2]

assoc_laguerre_body(l, alpha, x) ==
    LET k == F(l.i)
        a == F(alpha)
        l2 == FDiv(FSub(FMul(FSub(FAdd(FAdd(FMul(F(2), k), F(1)), a), x), l.l1),
                        FMul(FAdd(k, a), l.l0)),
                   FAdd(k, F(1)))
    IN  [i |-> l.i + 1, l0 |-> l.l1, l1 |-> l2, l2 |-> l2]

assoc_laguerre_init(alpha, x) ==
    [i |-> 1, l0 |-> F(1), l1 |-> FSub(FAdd(F(1), F(alpha)), x), l2 |-> F(0)]

assoc_laguerre_cond(l, n) == l.i < n

RECURSIVE assoc_laguerre_loop(_, _, _, _)
assoc_laguerre_loop(l, n, alpha, x) ==
    IF assoc_laguerre_cond(l, n)
    THEN assoc_laguerre_loop(assoc_laguerre_body(l, alpha, x), n, alpha, x)
    ELSE l.l1

assoc_laguerre(n, alpha, x) ==
    IF n = 0 THEN F(1)
    ELSE IF n = 1 THEN FSub(FAdd(F(1), F(alpha)), x)
    ELSE assoc_laguerre_loop(assoc_laguerre_init(alpha, x), n, alpha, x)

----------------------------------------------------------------------------
(* calc_factorial: Shaders/ComplexUtils.h and Utils/ComplexUtils.h (the    *)
(* two copies are identical).  `int result` is 32 bits wide.               *)

INT_MAX == 2147483647

\* the low 32 bits of result * i as a signed int, computed on 16-bit halves
Wrap32Mul(result, i) ==
    LET lo == result % 65536
        hi == (result \div 65536) % 65536
        plo == lo * i
        nlo == plo % 65536
        nhi == (hi * i + plo \div 65536) % 65536
    IN  IF nhi >= 32768 THEN (nhi - 65536) * 65536 + nlo ELSE nhi * 65536 + nlo

\* result *= i: the product overflows when it exceeds INT_MAX, which is
\* undefined behaviour; ub records that it happened
calc_factorial_body(l) ==
    [i |-> l.i + 1,
     result |-> Wrap32Mul(l.result, l.i),
     ub |-> l.ub \/ l.result < 0 \/ l.result > INT_MAX \div l.i]

calc_factorial_init == [i |-> 2, result |-> 1, ub |-> FALSE]

calc_factorial_cond_lt(l, n) == l.i < n

calc_factorial_cond(l, n) == l.i <= n

RECURSIVE calc_factorial_loop(_, _)
calc_factorial_loop(l, n) ==
    IF calc_factorial_cond(l, n) THEN calc_factorial_loop(calc_factorial_body(l), n) ELSE l

\* the values a call may return: the product, or after a signed overflow
\* whatever the build makes of it (the wrapped product, a saturated one)
calc_factorial(n) ==
    LET l == calc_factorial_loop(calc_factorial_init, n)
    IN  IF l.ub
        THEN {[value |-> v, ub |-> TRUE] : v \in {l.result, INT_MAX}}
        ELSE {[value |-> l.result, ub |-> FALSE]}

----------------------------------------------------------------------------
(* Wave-function evaluators: QuantumWaveFunctions.h.  sqrt, sin, cos, exp  *)
(* and pow are kept as uninterpreted terms over their exact arguments.     *)

\* a term is a triple, so that it never has the shape of a rational
Term(f, a) == <<"term", f, a>>

\* amplitude * cos(phase), amplitude * sin(phase)
Polar(amplitude, phase) ==
    ComplexType(Term("mul_cos", <<amplitude, phase>>), Term("mul_sin", <<amplitude, phase>>))

\* the in-well branch of infinite_well
infinite_well_inside(x, L, n, t, mass, hbar) ==
    LET amplitude == Term("mul", <<Term("sqrt", Term("div", <<F(2), L>>)),
                                   Term("sin", Term("n_pi_x_div_L", <<n, x, L>>))>>)
        energy == Term("div", <<Term("sq", Term("n_pi_hbar", <<n, hbar>>)),
                                Term("two_m_L_L", <<mass, L>>)>>)
        phase == Term("neg_E_t_div_hbar", <<energy, t, hbar>>)
    IN  Polar(amplitude, phase)

infinite_well_outside_closed(x, L) == ~FGt(x, F(0)) \/ FGt(x, L)

\* if (x < 0.0 || x > L)
infinite_well_outside(x, L) == FLt(x, F(0)) \/ FGt(x, L)

infinite_well(x, L, n, t, mass, hbar) ==
    IF infinite_well_outside(x, L)
    THEN ComplexType(F(0), F(0))
    ELSE infinite_well_inside(x, L, n, t, mass, hbar)

\* sqrt of a rational that is the square of a small rational
sqrt_exact(r) ==
    CHOOSE s \in {Rat(p, q) : p \in 0..4, q \in 1..4} : FMul(s, s) = r

harmonic_oscillator(x, n, omega, t, mass, hbar) ==
    LET alpha == sqrt_exact(FDiv(FMul(mass, omega), hbar))
        xScaled == FMul(alpha, x)
        herm == hermite(n, xScaled)
        norm == Term("norm", [n |-> n, fact |-> factorial(n), alpha |-> alpha])
        amplitude == Term("mul", <<norm, herm,
                                   Term("exp", FDiv(FNeg(FMul(xScaled, xScaled)), F(2)))>>)
        energy == FMul(FMul(hbar, omega), FAdd(F(n), <<1, 2>>))
        phase == FDiv(FMul(FNeg(energy), t), hbar)
    IN  Polar(amplitude, phase)

----------------------------------------------------------------------------
(* Field driver: calculateHarmonicOscillatorState *)

\* the evaluator call of the loop body, with the constants of lines 109-116
driver_call_uses_params(x, n) ==
    [fn |-> "harmonic_oscillator", x |-> x, n |-> n, omega |-> F(1),
     t |-> params.simulationTime, mass |-> params.mass, hbar |-> params.hbar]

driver_call(x, n) ==
    [fn |-> "harmonic_oscillator", x |-> x, n |-> n, omega |-> F(1),
     t |-> F(0), mass |-> F(1), hbar |-> F(1)]

\* what an evaluator call returns
Evaluate(c) == harmonic_oscillator(c.x, c.n, c.omega, c.t, c.mass, c.hbar)

\* psi[i] = harmonic_oscillator(position[i], ...): the buffer after the store
driver_store_shifted(buf, pos, n, i) ==
    ((i + 1) :> Evaluate(driver_call(pos[i], n))) @@ buf

driver_store_clobber(buf, pos, n, i) ==
    (i :> Evaluate(driver_call(pos[i], n)))
        @@ (IF i + 1 \in DOMAIN pos THEN ((i + 1) :> ComplexType(F(0), F(0))) ELSE <<>>)
        @@ buf

driver_store(buf, pos, n, i) ==
    (i :> Evaluate(driver_call(pos[i], n))) @@ buf

driver_cond(i, size) == i < size

\* the whole sequential loop, from index i
RECURSIVE driver_loop(_, _, _, _, _)
driver_loop(buf, pos, n, size, i) ==
    IF driver_cond(i, size)
    THEN driver_loop(driver_store(buf, pos, n, i), pos, n, size, i + 1)
    ELSE buf

calculateHarmonicOscillatorState(buf, pos, n, size) == driver_loop(buf, pos, n, size, 0)

----------------------------------------------------------------------------
(* State machine.  A behaviour is one call: from the idle state the caller *)
(* invokes a function with the arguments it chose, the next step enters    *)
(* the function, and each further step runs one iteration of its loop.     *)

NoLoc == [i |-> 0]
NoParams == [systemType |-> 0, simulationTime |-> F(0), mass |-> F(1), hbar |-> F(1)]

Init ==
    /\ fn = "none"
    /\ args = [n |-> 0]
    /\ pc = "idle"
    /\ loc = NoLoc
    /\ iters = 0
    /\ ret = F(0)
    /\ params = NoParams
    /\ position = <<>>
    /\ psi = <<>>
    /\ calls = <<>>

\* the caller, holding parameters prm and the grid pos, calls f(a)
Invoke(f, a, pos, prm) ==
    /\ fn' = f
    /\ args' = a
    /\ pc' = "start"
    /\ position' = pos
    /\ params' = prm
    /\ UNCHANGED <<loc, iters, ret, psi, calls>>

Invoke_special ==
    \/ \E n \in FactRange : Invoke("factorial", [n |-> n], <<>>, NoParams)
    \/ \E n \in FactRange : Invoke("calc_factorial", [n |-> n], <<>>, NoParams)
    \/ \E n \in NRange, x \in XVals : Invoke("hermite", [n |-> n, x |-> x], <<>>, NoParams)
    \/ \E n \in LagNRange, alpha \in AlphaRange, x \in XVals :
          Invoke("assoc_laguerre", [n |-> n, alpha |-> alpha, x |-> x], <<>>, NoParams)

Invoke_complex ==
    \E re \in ComplexParts, im \in ComplexParts :
       Invoke("complex", [z |-> ComplexType(re, im)], <<>>, NoParams)

Invoke_infinite_well ==
    \E x \in WellX, L \in WellL, n \in (-1)..2, t \in {F(0), F(1)},
       mass \in {F(0), F(1)}, hbar \in {F(0), F(1)} :
       Invoke("infinite_well",
              [x |-> x, L |-> L, n |-> n, t |-> t, mass |-> mass, hbar |-> hbar],
              <<>>, NoParams)

Invoke_driver ==
    \E size \in (-1)..MaxSize, n \in 0..MaxDriverN, prm \in ParamSets :
       \E pos \in [0..(size - 1) -> DriverX] :
          Invoke("driver", [n |-> n, size |-> size], pos, prm)

\* the call returns v before any loop
Return(v) ==
    /\ pc' = "done"
    /\ ret' = v
    /\ UNCHANGED <<fn, args, loc, iters, params, position, psi, calls>>

\* the call enters its loop with locals l
Enter(l) ==
    /\ pc' = "loop"
    /\ loc' = l
    /\ UNCHANGED <<fn, args, iters, ret, params, position, psi, calls>>

\* one execution of the loop body
Iterate(l) ==
    /\ loc' = l
    /\ iters' = iters + 1
    /\ UNCHANGED <<fn, args, pc, ret, params, position, psi, calls>>

\* the loop condition fails: return v
Leave(v) ==
    /\ pc' = "done"
    /\ ret' = v
    /\ UNCHANGED <<fn, args, loc, iters, params, position, psi, calls>>

Call_factorial ==
    /\ fn = "factorial" /\ pc = "start"
    /\ IF args.n <= 1 THEN Return(BigOfInt(1)) ELSE Enter(factorial_init)

Step_factorial ==
    /\ fn = "factorial" /\ pc = "loop"
    /\ IF factorial_cond(loc, args.n)
       THEN Iterate(factorial_body(loc))
       ELSE Leave(loc.result)

Call_hermite ==
    /\ fn = "hermite" /\ pc = "start"
    /\ IF args.n = 0 THEN Return(F(1))
       ELSE IF args.n = 1 THEN Return(FMul(F(2), args.x))
       ELSE Enter(hermite_init(args.x))

Step_hermite ==
    /\ fn = "hermite" /\ pc = "loop"
    /\ IF hermite_cond(loc, args.n)
       THEN Iterate(hermite_body(loc, args.x))
       ELSE Leave(loc.h1)

Call_assoc_laguerre ==
    /\ fn = "assoc_laguerre" /\ pc = "start"
    /\ IF args.n = 0 THEN Return(F(1))
       ELSE IF args.n = 1 THEN Return(FSub(FAdd(F(1), F(args.alpha)), args.x))
       ELSE Enter(assoc_laguerre_init(args.alpha, args.x))

Step_assoc_laguerre ==
    /\ fn = "assoc_laguerre" /\ pc = "loop"
    /\ IF assoc_laguerre_cond(loc, args.n)
       THEN Iterate(assoc_laguerre_body(loc, args.alpha, args.x))
       ELSE Leave(loc.l1)

Call_calc_factorial ==
    /\ fn = "calc_factorial" /\ pc = "start"
    /\ \E r \in calc_factorial(args.n) : Return(r)

\* the identities of the complex algebra, evaluated on one value z
Call_complex ==
    /\ fn = "complex" /\ pc = "start"
    /\ Return([abs2 |-> complex_abs2(args.z),
               dot |-> complex_dot(args.z, args.z),
               mul_conj |-> complex_mul(args.z, complex_conj(args.z)),
               mul_i_twice |-> complex_mul_i(complex_mul_i(args.z))])

Call_infinite_well ==
    /\ fn = "infinite_well" /\ pc = "start"
    /\ Return(infinite_well(args.x, args.L, args.n, args.t, args.mass, args.hbar))

\* calculateHarmonicOscillatorState(psi, position, n, size), called by a
\* caller that holds a QuantumParameters record
Call_driver ==
    /\ fn = "driver" /\ pc = "start"
    /\ Enter([i |-> 0])

Step_driver ==
    /\ fn = "driver" /\ pc = "loop"
    /\ IF driver_cond(loc.i, args.size)
       THEN /\ psi' = driver_store(psi, position, args.n, loc.i)
            /\ calls' = Append(calls, driver_call(position[loc.i], args.n))
            /\ loc' = [i |-> loc.i + 1]
            /\ iters' = iters + 1
            /\ UNCHANGED <<fn, args, pc, ret, params, position>>
       ELSE Leave(F(0))

\* the caller makes a call
Caller ==
    /\ pc = "idle"
    /\ \/ Invoke_special
       \/ Invoke_complex
       \/ Invoke_infinite_well
       \/ Invoke_driver

\* a called special function runs
RunSpecial ==
    \/ Call_factorial
    \/ Step_factorial
    \/ Call_hermite
    \/ Step_hermite
    \/ Call_assoc_laguerre
    \/ Step_assoc_laguerre

\* the called function runs
Run ==
    \/ RunSpecial
    \/ Call_calc_factorial
    \/ Call_complex
    \/ Call_infinite_well
    \/ Call_driver
    \/ Step_driver

Next == Caller \/ Run

Spec == Init /\ [][Next]_vars

\* a call that has been made runs: the next step of a running special
\* function is always taken
SpecLive == Spec /\ WF_vars(RunSpecial)

----------------------------------------------------------------------------
(* The loop body of the driver run by independent lanes, one per index, in *)
(* any order: each lane loads position[i], then stores psi[i].             *)

Invoke_lanes ==
    \E size \in (-1)..MaxSize, n \in 0..MaxDriverN :
       \E pos \in [0..(size - 1) -> DriverX] :
          Invoke("lanes", [n |-> n, size |-> size], pos, NoParams)

Call_lanes ==
    /\ fn = "lanes" /\ pc = "start"
    /\ Enter([phase |-> [i \in 0..(args.size - 1) |-> "pending"],
              x |-> [i \in 0..(args.size - 1) |-> F(0)]])

Lane_load(i) ==
    /\ fn = "lanes" /\ pc = "loop"
    /\ i \in DOMAIN loc.phase
    /\ loc.phase[i] = "pending"
    /\ loc' = [phase |-> [loc.phase EXCEPT ![i] = "loaded"],
               x |-> [loc.x EXCEPT ![i] = position[i]]]
    /\ UNCHANGED <<fn, args, pc, iters, ret, params, position, psi, calls>>

Lane_store(i) ==
    /\ fn = "lanes" /\ pc = "loop"
    /\ i \in DOMAIN loc.phase
    /\ loc.phase[i] = "loaded"
    /\ psi' = driver_store(psi, loc.x, args.n, i)
    /\ calls' = Append(calls, driver_call(loc.x[i], args.n))
    /\ loc' = [loc EXCEPT !.phase[i] = "stored"]
    /\ iters' = iters + 1
    /\ UNCHANGED <<fn, args, pc, ret, params, position>>

Lanes_finish ==
    /\ fn = "lanes" /\ pc = "loop"
    /\ \A i \in DOMAIN loc.phase : loc.phase[i] = "stored"
    /\ Leave(F(0))

NextLanes ==
    \/ pc = "idle" /\ Invoke_lanes
    \/ Call_lanes
    \/ \E i \in 0..(MaxSize - 1) : Lane_load(i)
    \/ \E i \in 0..(MaxSize - 1) : Lane_store(i)
    \/ Lanes_finish

SpecLanes == Init /\ [][NextLanes]_vars

----------------------------------------------------------------------------
(* Reference definitions used by the properties *)

Zero == ComplexType(F(0), F(0))

\* 1 * 2 * ... * n
RECURSIVE ProductUpTo(_)
ProductUpTo(n) == IF n <= 1 THEN BigOfInt(1) ELSE BigMulSmall(ProductUpTo(n - 1), n)

\* the physicists' Hermite polynomial: H0 = 1, H1 = 2x, H(k+1) = 2x H(k) - 2k H(k-1)
RECURSIVE HermitePoly(_, _)
HermitePoly(k, x) ==
    IF k = 0 THEN F(1)
    ELSE IF k = 1 THEN FMul(F(2), x)
    ELSE FSub(FMul(FMul(F(2), x), HermitePoly(k - 1, x)),
              FMul(F(2 * (k - 1)), HermitePoly(k - 2, x)))

\* the associated Laguerre polynomial: L0 = 1, L1 = 1 + a - x,
\* (k+1) L(k+1) = (2k + 1 + a - x) L(k) - (k + a) L(k-1)
RECURSIVE LaguerrePoly(_, _, _)
LaguerrePoly(k, a, x) ==
    IF k = 0 THEN F(1)
    ELSE IF k = 1 THEN FSub(F(1 + a), x)
    ELSE FDiv(FSub(FMul(FSub(F(2 * (k - 1) + 1 + a), x), LaguerrePoly(k - 1, a, x)),
                   FMul(F(k - 1 + a), LaguerrePoly(k - 2, a, x))),
              F(k))

\* the evaluator the specification's selector stands for
SelectorEvaluator(systemType) ==
    CASE systemType = 0 -> "free_particle"
      [] systemType = 1 -> "infinite_well"
      [] systemType = 2 -> "harmonic_oscillator"
      [] systemType = 3 -> "hydrogen_atom"

Special == {"factorial", "hermite", "assoc_laguerre"}

----------------------------------------------------------------------------
(* Properties *)

\* C1: infinite_well returns (0,0) for every x < 0 and every x > L, whatever
\* n, t, mass and hbar are; the cutoff is strict: at x = 0, at x = L and in
\* between the result is the in-well formula, not a forced (0,0).
C1_InfiniteWellCutoff ==
    (fn = "infinite_well" /\ pc = "done") =>
        LET x == args.x
            L == args.L
        IN  /\ (x[1] < 0 \/ L[1] * x[2] < x[1] * L[2]) => ret = Zero
            /\ (x[1] >= 0 /\ x[1] * L[2] <= L[1] * x[2]) =>
                  ret = infinite_well_inside(x, L, args.n, args.t, args.mass, args.hbar)

\* x = 1.1 lies outside the well of length 1
C1_Witness ==
    /\ fn = "infinite_well" /\ pc = "done"
    /\ args.x = <<11, 10>> /\ args.L = F(1) /\ args.n = 1
    /\ ret = Zero

\* C2: for n >= 0 and integer x in -2..2, hermite(n, x) is the physicists'
\* Hermite polynomial: hermite(0,x) = 1, hermite(1,x) = 2x, and
\* hermite(n+1,x) = 2x hermite(n,x) - 2n hermite(n-1,x).
C2_HermiteRecurrence ==
    (fn = "hermite" /\ pc = "done" /\ args.n >= 0) =>
        LET n == args.n
            x == args.x
        IN  /\ ret = HermitePoly(n, x)
            /\ ret = hermite(n, x)
            /\ n = 0 => ret = F(1)
            /\ n = 1 => ret = F(2 * x[1])
            /\ n >= 2 => ret = FSub(FMul(FMul(F(2), x), hermite(n - 1, x)),
                                    FMul(F(2 * (n - 1)), hermite(n - 2, x)))

\* H7(2) = -3104
C2_Witness ==
    /\ fn = "hermite" /\ pc = "done"
    /\ args.n = 7 /\ args.x = F(2)
    /\ iters = 6
    /\ ret = F(-3104)

\* C3: factorial(n) is 1 for every n <= 1, negative n included, and the
\* product 1*2*...*n for n >= 2; factorial(5) = 120.
C3_Factorial ==
    (fn = "factorial" /\ pc = "done") =>
        /\ args.n <= 1 => ret = BigOfInt(1)
        /\ args.n >= 2 => ret = ProductUpTo(args.n)
        /\ args.n = 5 => ret = BigOfInt(120)
        /\ ret = factorial(args.n)

\* a negative argument returns the defined value 1
C3_Witness ==
    /\ fn = "factorial" /\ pc = "done"
    /\ args.n = -2
    /\ ret = <<1>>

\* C4: for n >= 0 and alpha >= 0, assoc_laguerre(n, alpha, x) is the
\* associated Laguerre polynomial of the three-term recurrence;
\* assoc_laguerre(0,a,x) = 1 and assoc_laguerre(1,a,x) = 1 + a - x for any a.
C4_LaguerreRecurrence ==
    (fn = "assoc_laguerre" /\ pc = "done" /\ args.n >= 0) =>
        LET n == args.n
            a == args.alpha
            x == args.x
        IN  /\ n = 0 => ret = F(1)
            /\ n = 1 => ret = F(1 + a - x[1])
            /\ a >= 0 => ret = LaguerrePoly(n, a, x)
            /\ ret = assoc_laguerre(n, a, x)
            /\ (n >= 2 /\ a >= 0) =>
                  FMul(F(n), ret) =
                     FSub(FMul(F(2 * (n - 1) + 1 + a - x[1]), assoc_laguerre(n - 1, a, x)),
                          FMul(F(n - 1 + a), assoc_laguerre(n - 2, a, x)))

\* L3(1) = -2/3 for alpha = 0
C4_Witness ==
    /\ fn = "assoc_laguerre" /\ pc = "done"
    /\ args.n = 3 /\ args.alpha = 0 /\ args.x = F(1)
    /\ ret = <<-2, 3>>

\* C5: when the driver has run on a grid of length size, output sample i is
\* the evaluator applied to position i with the same quantum number and
\* constants for every i, the evaluator was invoked once per position in
\* order, and no slot outside 0..size-1 was written (none for size <= 0).
C5_DriverIndexCorrespondence ==
    (fn = "driver") =>
        /\ DOMAIN psi \subseteq 0..(args.size - 1)
        /\ pc = "done" =>
             /\ DOMAIN psi = 0..(args.size - 1)
             /\ Len(calls) = Max0(args.size)
             /\ iters = Max0(args.size)
             /\ args.size <= 0 => psi = <<>>
             /\ \A i \in 0..(args.size - 1) :
                   /\ calls[i + 1].x = position[i]
                   /\ calls[i + 1] = [calls[1] EXCEPT !.x = position[i]]
                   /\ calls[i + 1].n = args.n
                   /\ psi[i] = Evaluate(calls[i + 1])

\* a full grid of three different positions
C5_Witness ==
    /\ fn = "driver" /\ pc = "done"
    /\ args.size = 3 /\ args.n = 2
    /\ position = (0 :> F(-1)) @@ (1 :> F(0)) @@ (2 :> F(1))
    /\ DOMAIN psi = 0..2
    /\ psi[0] # psi[1] /\ psi[1] # psi[2]

C7_AnyOrderSameOutput ==
    (fn = "lanes" /\ pc \in {"loop", "done"}) =>
        LET seq == calculateHarmonicOscillatorState(<<>>, position, args.n, args.size)
        IN  /\ \A i \in DOMAIN loc.phase :
                  loc.phase[i] = "stored" => (i \in DOMAIN psi /\ psi[i] = seq[i])
            /\ pc = "done" => psi = seq

\* lane 1 stored before lane 0
C7_Witness ==
    /\ fn = "lanes" /\ pc = "done"
    /\ args.size = 2 /\ args.n = 1
    /\ position[0] = F(1) /\ position[1] = F(-1)
    /\ calls[1].x = F(-1) /\ calls[2].x = F(1)
    /\ psi[0] # psi[1]

\* C8: complex_abs2(z) = complex_dot(z, z), and complex_mul(z, complex_conj(z))
\* has real part real^2 + imag^2 and imaginary part 0.
C8_ComplexIdentities ==
    (fn = "complex" /\ pc = "done") =>
        LET z == args.z
        IN  /\ ret.abs2 = ret.dot
            /\ ret.abs2 = FAdd(FMul(z.real, z.real), FMul(z.imag, z.imag))
            /\ ret.mul_conj = ComplexType(ret.abs2, F(0))

\* z = 2 + i/2: |z|^2 = 17/4
C8_Witness ==
    /\ fn = "complex" /\ pc = "done"
    /\ args.z = ComplexType(F(2), <<1, 2>>)
    /\ ret.mul_conj = ComplexType(<<17, 4>>, F(0))

\* C9: every call of factorial, hermite and assoc_laguerre returns, for
\* every n, negative included, after exactly max(0, n-1) loop iterations,
\* keeping a fixed set of rolling values.
C9_SpecialFunctionsTerminate ==
    /\ [](fn \in Special =>
            /\ iters <= Max0(args.n - 1)
            /\ pc = "done" => iters = Max0(args.n - 1)
            /\ pc = "loop" =>
                 DOMAIN loc = CASE fn = "factorial" -> {"i", "result"}
                                [] fn = "hermite" -> {"i", "h0", "h1", "h2"}
                                [] fn = "assoc_laguerre" -> {"i", "l0", "l1", "l2"})
    /\ (fn \in Special /\ pc = "start") ~> (pc = "done")

\* a negative n: the loop does not run and the seed 2x is returned
C9_Witness ==
    /\ fn = "hermite" /\ pc = "done"
    /\ args.n = -2 /\ args.x = F(2)
    /\ iters = 0
    /\ ret = F(4)

\* C10: calc_factorial(n) is 1 for n <= 1 and exactly n!, with no signed
\* overflow, for 2 <= n <= 12, where it agrees with factorial(n); 13! does
\* not fit: from n = 13 on the product overflows.
C10_CalcFactorialRange ==
    (fn = "calc_factorial" /\ pc = "done") =>
        LET n == args.n
        IN  /\ n <= 1 => (ret.value = 1 /\ ~ret.ub)
            /\ (2 <= n /\ n <= 12) => (~ret.ub /\ BigOfInt(ret.value) = ProductUpTo(n))
            /\ (0 <= n /\ n <= 12) => BigOfInt(ret.value) = factorial(n)
            /\ n >= 13 => ret.ub

\* 12! = 479001600 is the last product that fits
C10_Witness ==
    /\ fn = "calc_factorial" /\ pc = "done"
    /\ args.n = 12
    /\ ret = [value |-> 479001600, ub |-> FALSE]

====
